---- MODULE Spec2Model ----
(***************************************************************************)
(* Model of scripts/whitelist_filter.py: the WhitelistFilter class.        *)
(*                                                                         *)
(* A Python str is a sequence of one-character strings.  A file is the     *)
(* sequence of characters it holds, line terminators included; NoFile      *)
(* stands for a path that does not exist.                                  *)
(***************************************************************************)
EXTENDS Integers, Sequences, FiniteSets

\* ------------------------------------------------------------------------
\* Characters
\* ------------------------------------------------------------------------
NL == "\n"
SP == " "
TAB == "\t"
QUOTE == "\""
DOT == "."
STAR == "*"
HASH == "#"
PIPE == "|"
CARET == "^"

\* Characters str.strip() removes (those of the model's alphabets).
Whitespace == {SP, NL, TAB}

\* str.lower() on one character.
lower_char(c) ==
    CASE c = "A" -> "a"
      [] c = "B" -> "b"
      [] OTHER -> c

\* str.lower()
lower(s) == [i \in 1..Len(s) |-> lower_char(s[i])]

\* All strings over the characters chars of length at most n.
StringsUpTo(chars, n) == UNION {[1..k -> chars] : k \in 0..n}

\* ------------------------------------------------------------------------
\* Python string methods, as the interpreter computes them
\* ------------------------------------------------------------------------
\* s[from:] with a 0-based start
SliceFrom(s, from) == SubSeq(s, from + 1, Len(s))

\* s[from:to] with 0-based bounds, to excluded
Slice(s, from, to) == SubSeq(s, from + 1, to)

RECURSIVE lstrip_chars(_, _)
lstrip_chars(s, chars) ==
    IF s # <<>> /\ Head(s) \in chars THEN lstrip_chars(Tail(s), chars) ELSE s

RECURSIVE rstrip_chars(_, _)
rstrip_chars(s, chars) ==
    IF s # <<>> /\ s[Len(s)] \in chars
    THEN rstrip_chars(SubSeq(s, 1, Len(s) - 1), chars)
    ELSE s

\* s.strip(chars)
strip_chars(s, chars) == rstrip_chars(lstrip_chars(s, chars), chars)

\* s.strip()
strip(s) == strip_chars(s, Whitespace)

\* s.startswith(prefix)
startswith(s, prefix) ==
    Len(s) >= Len(prefix) /\ SubSeq(s, 1, Len(prefix)) = prefix

\* s.find(c, start): the 0-based index of the first c at or after start, or -1
RECURSIVE find(_, _, _)
find(s, c, start) ==
    IF start >= Len(s) THEN -1
    ELSE IF s[start + 1] = c THEN start
    ELSE find(s, c, start + 1)

\* s.split(): the maximal runs of non-whitespace, in order
RECURSIVE split_ws_from(_, _, _)
split_ws_from(s, cur, acc) ==
    IF s = <<>> THEN (IF cur = <<>> THEN acc ELSE Append(acc, cur))
    ELSE IF Head(s) \in Whitespace
         THEN split_ws_from(Tail(s), <<>>, IF cur = <<>> THEN acc ELSE Append(acc, cur))
         ELSE split_ws_from(Tail(s), Append(cur, Head(s)), acc)

split_ws(s) == split_ws_from(s, <<>>, <<>>)

\* s.split(sep) for a one-character sep: empty fields are kept
RECURSIVE split_sep_from(_, _, _, _)
split_sep_from(s, sep, cur, acc) ==
    IF s = <<>> THEN Append(acc, cur)
    ELSE IF Head(s) = sep
         THEN split_sep_from(Tail(s), sep, <<>>, Append(acc, cur))
         ELSE split_sep_from(Tail(s), sep, Append(cur, Head(s)), acc)

split_sep(s, sep) == split_sep_from(s, sep, <<>>, <<>>)

\* sep.join(parts)
RECURSIVE join(_, _)
join(sep, parts) ==
    IF parts = <<>> THEN <<>>
    ELSE IF Len(parts) = 1 THEN parts[1]
    ELSE parts[1] \o <<sep>> \o join(sep, Tail(parts))

\* Iterating a text file: the lines, each with its terminator; the last line
\* has none when the file does not end with a newline.
RECURSIVE readlines_from(_, _, _)
readlines_from(content, cur, acc) ==
    IF content = <<>> THEN (IF cur = <<>> THEN acc ELSE Append(acc, cur))
    ELSE IF Head(content) = NL
         THEN readlines_from(Tail(content), <<>>, Append(acc, Append(cur, NL)))
         ELSE readlines_from(Tail(content), Append(cur, Head(content)), acc)

readlines(content) == readlines_from(content, <<>>, <<>>)

\* ------------------------------------------------------------------------
\* State
\* ------------------------------------------------------------------------
VARIABLES
    fs,               \* the file system: path -> content, or NoFile
    exact_domains,    \* WhitelistFilter.exact_domains
    wildcard_domains, \* WhitelistFilter.wildcard_domains
    whitelist,        \* WhitelistFilter.whitelist (the raw entries)
    arg,              \* the string a caller passes to a pure method
    ret,              \* how the last call ended: what it returned or raised
    pc,               \* position inside filter_blocklist_file
    input_path,       \* filter_blocklist_file: input_path
    output_path,      \* filter_blocklist_file: output_path
    in_handle,        \* the input file object: "closed" or "open"
    out_handle,       \* the output file object: "closed" or "open"
    f_pos,            \* characters of the input consumed so far
    filtered_lines,   \* filter_blocklist_file: filtered_lines
    original_count,   \* filter_blocklist_file: original_count
    filtered_count,   \* filter_blocklist_file: filtered_count
    written,          \* entries of filtered_lines written so far
    calls_left,       \* filter_blocklist_file calls the caller may still make
    io_faults_left,   \* I/O faults the environment may still inject
    hist              \* history: what the checks compare a call against

store == <<exact_domains, wildcard_domains, whitelist>>
locals == <<input_path, output_path, in_handle, out_handle, f_pos,
            filtered_lines, original_count, filtered_count, written>>
vars == <<fs, exact_domains, wildcard_domains, whitelist, arg, ret, pc,
          input_path, output_path, in_handle, out_handle, f_pos,
          filtered_lines, original_count, filtered_count, written,
          calls_left, io_faults_left, hist>>

\* ------------------------------------------------------------------------
\* Bounds
\* ------------------------------------------------------------------------
MaxLineLen == 5      \* _extract_domain: the longest line passed
MaxDomainLen == 4    \* should_filter_domain: the longest domain passed
MaxMatchWlLen == 3   \* should_filter_domain: the longest whitelist file
MaxTokensLen == 5    \* filter_blocklist_line: the longest line passed
MaxLineWlLen == 3    \* filter_blocklist_line: the longest whitelist file
MaxStoreWlLen == 3   \* load_whitelist: the longest whitelist file
MaxOtherWlLen == 1   \* load_whitelist: the longest second whitelist file
MaxFileWlLen == 1    \* filter_blocklist_file: the longest whitelist file
MaxBlLen == 3        \* filter_blocklist_file: the longest blocklist file
MaxFaultBlLen == 2   \* the same where I/O faults are injected
MaxCalls == 2        \* filter_blocklist_file calls in one run
MaxFaultCalls == 1   \* the same where I/O faults are injected
MaxFaults == 1       \* I/O faults injected in one run

\* A path's entry in fs: a file with its content, or nothing at that path.
File(content) == [exists |-> TRUE, content |-> content]
NoFile == [exists |-> FALSE, content |-> <<>>]
\* "nx" is a path at which no file is ever created.
Paths == {"wl", "bl", "out", "nx"}

\* ------------------------------------------------------------------------
\* How a call ends.  One record shape for every method: op the method,
\* kind "return" or "raise", and the returned value in the field of its
\* type (bool, pair, str; none is TRUE when the value is None), or the
\* exception raised in exc.
\* ------------------------------------------------------------------------
NoCall ==
    [op |-> "", kind |-> "", bool |-> FALSE, pair |-> <<0, 0>>,
     str |-> <<>>, none |-> FALSE, exc |-> ""]
ReturnBool(op, b) == [NoCall EXCEPT !.op = op, !.kind = "return", !.bool = b]
ReturnPair(op, p) == [NoCall EXCEPT !.op = op, !.kind = "return", !.pair = p]
ReturnStr(op, s) == [NoCall EXCEPT !.op = op, !.kind = "return", !.str = s]
ReturnNone(op) == [NoCall EXCEPT !.op = op, !.kind = "return", !.none = TRUE]
Raise(op, e) == [NoCall EXCEPT !.op = op, !.kind = "raise", !.exc = e]

\* ------------------------------------------------------------------------
\* Exceptions and the except clauses
\* ------------------------------------------------------------------------
OSErrors == {"FileNotFoundError", "PermissionError", "OSError"}
Exceptions == OSErrors \cup {"UnicodeDecodeError"}

except_OSError(exc) == exc \in OSErrors

\* `except Exception:` catches every exception the I/O calls raise.
except_Exception(exc) == exc \in Exceptions

\* load_whitelist's handlers: what the call does with exception exc.
load_whitelist_except(exc) ==
    IF exc = "FileNotFoundError" THEN ReturnBool("load_whitelist", FALSE)
    ELSE IF except_Exception(exc) THEN ReturnBool("load_whitelist", FALSE)
    ELSE Raise("load_whitelist", exc)

\* filter_blocklist_file's handler.
filter_blocklist_file_except(exc) ==
    IF except_Exception(exc) THEN ReturnPair("filter_blocklist_file", <<0, 0>>)
    ELSE Raise("filter_blocklist_file", exc)

\* The failures of an existing, well-formed path: the environment injects
\* them while it has faults left.
InjectedFaults == {"PermissionError", "UnicodeDecodeError", "OSError"}
Injected(excs) == IF io_faults_left > 0 THEN excs ELSE {}
FaultsLeftAfter(o) == IF o \in InjectedFaults THEN io_faults_left - 1 ELSE io_faults_left

\* open(path, 'r'): it succeeds ("ok") or raises.
open_read_outcomes(path) ==
    IF fs[path].exists THEN {"ok"} \cup Injected({"PermissionError"})
    ELSE {"FileNotFoundError"}

\* Reading the next line: it is decoded, or the read fails.
read_outcomes == {"ok"} \cup Injected({"UnicodeDecodeError"})

\* open(path, 'w'): the file is created or truncated, or the open fails.
open_write_outcomes == {"ok"} \cup Injected({"PermissionError"})

\* f.write(line)
write_outcomes == {"ok"} \cup Injected({"OSError"})

\* ------------------------------------------------------------------------
\* WhitelistFilter: the pure methods
\* ------------------------------------------------------------------------
\* One iteration of load_whitelist's loop on the sets st.
load_whitelist_line(st, raw) ==
    LET line == strip(raw) IN
    IF line # <<>> /\ ~startswith(line, <<HASH>>)
    THEN LET domain == lower(strip_chars(line, {QUOTE})) IN
         IF domain # <<>>
         THEN IF startswith(domain, <<STAR, DOT>>)
              THEN LET base_domain == SliceFrom(domain, 2) IN
                   [st EXCEPT !.whitelist = @ \cup {domain},
                              !.wildcard = IF base_domain # <<>>
                                           THEN @ \cup {base_domain} ELSE @]
              ELSE [st EXCEPT !.whitelist = @ \cup {domain},
                              !.exact = @ \cup {domain}]
         ELSE st
    ELSE st

EmptySets == [exact |-> {}, wildcard |-> {}, whitelist |-> {}]

\* The sets after the loop has run over the first n of lines.
RECURSIVE load_whitelist_lines(_, _)
load_whitelist_lines(lines, n) ==
    IF n = 0 THEN EmptySets
    ELSE load_whitelist_line(load_whitelist_lines(lines, n - 1), lines[n])

\* should_filter_domain, bug variant: a whitelisted parent matches too.
should_filter_domain_parents(domain) ==
    LET d == lower(domain)
        parts == split_sep(d, DOT)
    IN  domain # <<>> /\
        \E i \in 0..(Len(parts) - 1) :
            join(DOT, SubSeq(parts, i + 1, Len(parts)))
                \in exact_domains \cup wildcard_domains

should_filter_domain(domain) ==
    IF domain = <<>> \/ (exact_domains = {} /\ wildcard_domains = {})
    THEN FALSE
    ELSE LET d == lower(domain) IN
         IF d \in exact_domains THEN TRUE
         ELSE IF wildcard_domains # {}
              THEN IF d \in wildcard_domains THEN TRUE
                   ELSE LET parts == split_sep(d, DOT) IN
                        \E i \in 1..(Len(parts) - 1) :
                            join(DOT, SubSeq(parts, i + 1, Len(parts)))
                                \in wildcard_domains
              ELSE FALSE

\* _extract_domain, bug variant: the last token is taken for the domain.
_extract_domain_last(line0) ==
    LET line == strip(line0)
        parts == split_ws(line)
        domain0 ==
            IF startswith(line, <<PIPE, PIPE>>)
            THEN LET end_pos == find(line, CARET, 2) IN
                 IF end_pos # -1 THEN Slice(line, 2, end_pos)
                 ELSE SliceFrom(line, 2)
            ELSE IF Len(parts) >= 1 THEN parts[Len(parts)] ELSE <<>>
        domain == lower(strip(domain0))
    IN  IF startswith(domain, <<STAR, DOT>>) THEN SliceFrom(domain, 2) ELSE domain

_extract_domain(line0) ==
    LET line == strip(line0)
        parts == split_ws(line)
        domain0 ==
            IF startswith(line, <<PIPE, PIPE>>)
            THEN LET end_pos == find(line, CARET, 2) IN
                 IF end_pos # -1 THEN Slice(line, 2, end_pos)
                 ELSE SliceFrom(line, 2)
            ELSE IF Len(parts) >= 2 THEN parts[2]
                 ELSE IF Len(parts) = 1 THEN parts[1]
                 ELSE <<>>
        domain == lower(strip(domain0))
    IN  IF startswith(domain, <<STAR, DOT>>) THEN SliceFrom(domain, 2) ELSE domain

\* filter_blocklist_line's result: None (the line is dropped) or a str.
Dropped == [none |-> TRUE, str |-> <<>>]
Kept(line) == [none |-> FALSE, str |-> line]

\* filter_blocklist_line, bug variant: comments are not set apart.
filter_blocklist_line_no_comments(line0) ==
    LET line == strip(line0)
        domain == _extract_domain(line)
    IN  IF domain # <<>> /\ should_filter_domain(domain) THEN Dropped
        ELSE Kept(line)

filter_blocklist_line(line0) ==
    LET line == strip(line0) IN
    IF line = <<>> \/ startswith(line, <<HASH>>) THEN Kept(line)
    ELSE LET domain == _extract_domain(line) IN
         IF domain # <<>> /\ should_filter_domain(domain) THEN Dropped
         ELSE Kept(line)

\* ------------------------------------------------------------------------
\* History: the facts about earlier calls that the properties refer to.
\*   good, good_file   whether some load_whitelist call has returned True,
\*              and the content of the file of the latest such call
\*   exc        the exception raised inside the last load_whitelist or
\*              filter_blocklist_file call ("" when none was)
\*   failed_at  where in filter_blocklist_file it was raised
\*   call_fs    the file system when filter_blocklist_file was last called
\*   call_in, call_out   that call's input path and effective output path
\*   out_opens  how often that call has opened its output for writing
\*   seen       the lines that call has read so far, in order
\*   made       whether some filter_blocklist_file call has succeeded, and
\*   made_path, made_content, made_store, made_pair   the path it wrote,
\*              what it wrote, the sets it used, and what it returned
\*   rerun      whether the last call's input was that file, unchanged, and
\*              the sets were the same; prev_pair is then made_pair
\* ------------------------------------------------------------------------
NoHistory ==
    [good |-> FALSE, good_file |-> <<>>, exc |-> "", failed_at |-> "",
     call_fs |-> [p \in Paths |-> NoFile], call_in |-> "", call_out |-> "",
     out_opens |-> 0, seen |-> <<>>,
     made |-> FALSE, made_path |-> "", made_content |-> <<>>,
     made_store |-> <<{}, {}>>, made_pair |-> <<0, 0>>,
     rerun |-> FALSE, prev_pair |-> <<0, 0>>]

\* The locals of filter_blocklist_file when no call is running.
NoLocals ==
    /\ input_path' = ""
    /\ output_path' = ""
    /\ in_handle' = "closed"
    /\ out_handle' = "closed"
    /\ f_pos' = 0
    /\ filtered_lines' = <<>>
    /\ original_count' = 0
    /\ filtered_count' = 0
    /\ written' = 0

\* ------------------------------------------------------------------------
\* Actions
\* ------------------------------------------------------------------------
\* load_whitelist(path), start to end.  The open fails and nothing is
\* touched; or the sets are emptied and the loop runs, to the end of the
\* file or to a read that fails after n lines.
load_whitelist(path) ==
    /\ pc = "idle"
    /\ \E o \in open_read_outcomes(path) :
        IF o # "ok"
        THEN /\ ret' = load_whitelist_except(o)
             /\ io_faults_left' = FaultsLeftAfter(o)
             /\ hist' = [hist EXCEPT !.exc = o]
             /\ UNCHANGED store
        ELSE LET lines == readlines(fs[path].content) IN
             \E n \in 0..Len(lines), r \in read_outcomes :
                /\ r = "ok" => n = Len(lines)
                /\ io_faults_left' = FaultsLeftAfter(r)
                /\ LET st == load_whitelist_lines(lines, n) IN
                   /\ exact_domains' = st.exact
                   /\ wildcard_domains' = st.wildcard
                   /\ whitelist' = st.whitelist
                /\ IF r = "ok"
                   THEN /\ ret' = ReturnBool("load_whitelist", TRUE)
                        /\ hist' = [hist EXCEPT !.good = TRUE, !.exc = "",
                                                !.good_file = fs[path].content]
                   ELSE /\ ret' = load_whitelist_except(r)
                        /\ hist' = [hist EXCEPT !.exc = r]
    /\ UNCHANGED <<fs, arg, pc, locals, calls_left>>

\* A caller asks should_filter_domain(arg).
call_should_filter_domain ==
    /\ pc = "idle"
    /\ ret' = ReturnBool("should_filter_domain", should_filter_domain(arg))
    /\ UNCHANGED <<fs, store, arg, pc, locals, calls_left, io_faults_left, hist>>

\* A caller asks _extract_domain(arg).
call_extract_domain ==
    /\ pc = "idle"
    /\ ret' = ReturnStr("_extract_domain", _extract_domain(arg))
    /\ UNCHANGED <<fs, store, arg, pc, locals, calls_left, io_faults_left, hist>>

\* A caller asks filter_blocklist_line(arg).
call_filter_blocklist_line ==
    /\ pc = "idle"
    /\ LET r == filter_blocklist_line(arg) IN
       ret' = IF r.none THEN ReturnNone("filter_blocklist_line")
              ELSE ReturnStr("filter_blocklist_line", r.str)
    /\ UNCHANGED <<fs, store, arg, pc, locals, calls_left, io_faults_left, hist>>

\* filter_blocklist_file(inp, out) is called: lines 182-187.  out may be
\* "None" (the default), and then the input is rewritten in place.
filter_blocklist_file(inp, out) ==
    /\ pc = "idle"
    /\ calls_left > 0
    /\ calls_left' = calls_left - 1
    /\ pc' = "open_in"
    /\ input_path' = inp
    /\ output_path' = IF out = "None" THEN inp ELSE out
    /\ filtered_lines' = <<>>
    /\ original_count' = 0
    /\ filtered_count' = 0
    /\ ret' = NoCall
    /\ hist' = [hist EXCEPT
            !.call_fs = fs, !.call_in = inp, !.call_out = output_path',
            !.out_opens = 0, !.seen = <<>>, !.exc = "", !.failed_at = "",
            !.prev_pair = hist.made_pair,
            !.rerun = /\ hist.made
                      /\ hist.made_path = inp
                      /\ fs[inp] = File(hist.made_content)
                      /\ hist.made_store = <<exact_domains, wildcard_domains>>]
    /\ UNCHANGED <<fs, store, arg, in_handle, out_handle, f_pos, written,
                   io_faults_left>>

\* The call ends in the except clause with exception exc.
FilterFileFails(exc) ==
    /\ ret' = filter_blocklist_file_except(exc)
    /\ io_faults_left' = FaultsLeftAfter(exc)
    /\ hist' = [hist EXCEPT !.exc = exc, !.failed_at = pc]
    /\ pc' = "idle"
    /\ NoLocals

\* Line 190: open(input_path, 'r').
OpenInput ==
    /\ pc = "open_in"
    /\ \E o \in open_read_outcomes(input_path) :
        IF o = "ok"
        THEN /\ in_handle' = "open"
             /\ f_pos' = 0
             /\ pc' = "reading"
             /\ UNCHANGED <<ret, input_path, output_path, out_handle,
                            filtered_lines, original_count, filtered_count,
                            written, io_faults_left, hist>>
        ELSE FilterFileFails(o)
    /\ UNCHANGED <<fs, store, arg, calls_left>>

\* What the with statement does with the input handle when its block ends,
\* bug variant: the handle is left open.
input_handle_left_open == "open"

input_handle_after_with == "closed"

\* What line 198 appends for a kept line, bug variant: the line is kept as
\* read and a newline added.
appended_raw(raw, kept) == raw \o <<NL>>

\* Line 198: what is appended for a kept line: raw as read, kept as
\* filter_blocklist_line returned it.
appended(raw, kept) == IF kept # <<>> THEN kept \o <<NL>> ELSE <<NL>>

\* Line 196, bug variant: every line counts as filtered.
count_every_line(n, r) == n + 1

\* Lines 195-196: filtered_count after a line whose result is r.
next_filtered_count(n, r) == IF r.none THEN n + 1 ELSE n

\* Lines 191-198: one iteration of the loop, the end of the file (the with
\* block ends and the handle is closed), or a read that fails.
ReadLine ==
    /\ pc = "reading"
    /\ LET rest == SliceFrom(fs[input_path].content, f_pos) IN
       IF rest = <<>>
       THEN /\ in_handle' = input_handle_after_with
            /\ pc' = "open_out"
            /\ UNCHANGED <<ret, input_path, output_path, out_handle, f_pos,
                           filtered_lines, original_count, filtered_count,
                           written, io_faults_left, hist>>
       ELSE \E r \in read_outcomes :
            IF r = "ok"
            THEN LET line == Head(readlines(rest))
                     filtered_line == filter_blocklist_line(line)
                 IN  /\ f_pos' = f_pos + Len(line)
                     /\ original_count' = original_count + 1
                     /\ filtered_count' = next_filtered_count(filtered_count, filtered_line)
                     /\ filtered_lines' =
                            IF filtered_line.none THEN filtered_lines
                            ELSE Append(filtered_lines, appended(line, filtered_line.str))
                     /\ hist' = [hist EXCEPT !.seen = Append(@, line)]
                     /\ UNCHANGED <<ret, pc, input_path, output_path, in_handle,
                                    out_handle, written, io_faults_left>>
            ELSE FilterFileFails(r)
    /\ UNCHANGED <<fs, store, arg, calls_left>>

\* Line 201: open(output_path, 'w') creates or truncates the file.
OpenOutput ==
    /\ pc = "open_out"
    /\ \E o \in open_write_outcomes :
        IF o = "ok"
        THEN /\ fs' = [fs EXCEPT ![output_path] = File(<<>>)]
             /\ out_handle' = "open"
             /\ written' = 0
             /\ pc' = "writing"
             /\ hist' = [hist EXCEPT !.out_opens = @ + 1]
             /\ UNCHANGED <<ret, input_path, output_path, in_handle, f_pos,
                            filtered_lines, original_count, filtered_count,
                            io_faults_left>>
        ELSE /\ FilterFileFails(o)
             /\ UNCHANGED fs
    /\ UNCHANGED <<store, arg, calls_left>>

\* Lines 202-205: one f.write, or the end of the loop: the handle is closed
\* and the counts are returned.
WriteLine ==
    /\ pc = "writing"
    /\ IF written < Len(filtered_lines)
       THEN \E w \in write_outcomes :
            IF w = "ok"
            THEN /\ fs' = [fs EXCEPT ![output_path] =
                              File(@.content \o filtered_lines[written + 1])]
                 /\ written' = written + 1
                 /\ UNCHANGED <<ret, pc, input_path, output_path, in_handle,
                                out_handle, f_pos, filtered_lines,
                                original_count, filtered_count,
                                io_faults_left, hist>>
            ELSE /\ FilterFileFails(w)
                 /\ UNCHANGED fs
       ELSE /\ ret' = ReturnPair("filter_blocklist_file",
                                 <<original_count, filtered_count>>)
            /\ pc' = "idle"
            /\ NoLocals
            /\ hist' = [hist EXCEPT
                    !.made = TRUE, !.made_path = output_path,
                    !.made_content = fs[output_path].content,
                    !.made_store = <<exact_domains, wildcard_domains>>,
                    !.made_pair = <<original_count, filtered_count>>]
            /\ UNCHANGED <<fs, io_faults_left>>
    /\ UNCHANGED <<store, arg, calls_left>>

\* ------------------------------------------------------------------------
\* The inputs drawn within the bounds
\* ------------------------------------------------------------------------
ExtractChars == {"a", "A", SP, PIPE, CARET, STAR, DOT}
DomainChars == {"a", "A", DOT}
MatchWlChars == {"a", DOT, STAR, NL}
StoreWlChars == {"a", "A", SP, QUOTE, STAR, DOT, HASH, NL}
OtherWlChars == {"b"}
LineChars == {"a", SP, PIPE}
LineWlChars == {"a", STAR, DOT}
FileWlChars == {"a"}
BlChars == {"a", SP, HASH, NL}

\* The state after WhitelistFilter() with the files `files` on disk, a
\* caller about to pass `a` to the pure methods and to call
\* filter_blocklist_file at most `calls` times, and an environment that
\* injects at most `faults` I/O faults.
Constructed(files, a, calls, faults) ==
    /\ fs = files
    /\ exact_domains = {}
    /\ wildcard_domains = {}
    /\ whitelist = {}
    /\ arg = a
    /\ ret = NoCall
    /\ pc = "idle"
    /\ input_path = ""
    /\ output_path = ""
    /\ in_handle = "closed"
    /\ out_handle = "closed"
    /\ f_pos = 0
    /\ filtered_lines = <<>>
    /\ original_count = 0
    /\ filtered_count = 0
    /\ written = 0
    /\ calls_left = calls
    /\ io_faults_left = faults
    /\ hist = NoHistory

NoFiles == [p \in Paths |-> NoFile]

\* --- _extract_domain on every line ---------------------------------------
InitExtract ==
    \E a \in StringsUpTo(ExtractChars, MaxLineLen) : Constructed(NoFiles, a, 0, 0)

NextExtract == call_extract_domain

SpecExtract == InitExtract /\ [][NextExtract]_vars

\* --- filter_blocklist_line on every line, after any loads ---------------
InitLine ==
    \E w \in StringsUpTo(LineWlChars, MaxLineWlLen),
       a \in StringsUpTo(LineChars, MaxTokensLen) :
        Constructed([NoFiles EXCEPT !["wl"] = File(w)], a, 0, 0)

NextLine ==
    \/ load_whitelist("wl")
    \/ call_filter_blocklist_line

SpecLine == InitLine /\ [][NextLine]_vars

\* --- should_filter_domain on every domain, after any loads ----------------
InitMatch ==
    \E w \in StringsUpTo(MatchWlChars, MaxMatchWlLen),
       a \in StringsUpTo(DomainChars, MaxDomainLen) :
        Constructed([NoFiles EXCEPT !["wl"] = File(w)], a, 0, 0)

NextMatch ==
    \/ load_whitelist("wl")
    \/ call_should_filter_domain

SpecMatch == InitMatch /\ [][NextMatch]_vars

\* --- load_whitelist on two whitelist files and a missing path -------------
InitStore ==
    \E w1 \in StringsUpTo(StoreWlChars, MaxStoreWlLen),
       w2 \in StringsUpTo(OtherWlChars, MaxOtherWlLen) :
        Constructed([NoFiles EXCEPT !["wl"] = File(w1), !["bl"] = File(w2)],
                    <<>>, 0, MaxFaults)

NextStore == \E p \in {"wl", "bl", "nx"} : load_whitelist(p)

SpecStore == InitStore /\ [][NextStore]_vars

\* --- filtering blocklist files and their lines, no I/O faults -------------
InitRun ==
    \E w \in StringsUpTo(FileWlChars, MaxFileWlLen),
       b \in StringsUpTo(BlChars, MaxBlLen) :
        Constructed([NoFiles EXCEPT !["wl"] = File(w), !["bl"] = File(b)],
                    b, MaxCalls, 0)

NextRun ==
    \/ \E p \in {"wl", "nx"} : load_whitelist(p)
    \/ call_filter_blocklist_line
    \/ \E io \in {<<"bl", "None">>, <<"bl", "out">>, <<"out", "None">>} :
          filter_blocklist_file(io[1], io[2])
    \/ OpenInput
    \/ ReadLine
    \/ OpenOutput
    \/ WriteLine

SpecRun == InitRun /\ [][NextRun]_vars

\* --- the same with I/O faults ---------------------------------------------
InitFault ==
    \E w \in StringsUpTo(FileWlChars, MaxFileWlLen),
       b \in StringsUpTo(BlChars, MaxFaultBlLen) :
        Constructed([NoFiles EXCEPT !["wl"] = File(w), !["bl"] = File(b)],
                    <<>>, MaxFaultCalls, MaxFaults)

NextFault ==
    \/ \E p \in {"wl", "nx"} : load_whitelist(p)
    \/ \E io \in {<<"bl", "None">>, <<"bl", "out">>, <<"nx", "None">>} :
          filter_blocklist_file(io[1], io[2])
    \/ OpenInput
    \/ ReadLine
    \/ OpenOutput
    \/ WriteLine

SpecFault == InitFault /\ [][NextFault]_vars

\* ------------------------------------------------------------------------
\* The vocabulary of the properties, stated without the methods' code
\* ------------------------------------------------------------------------
Min(S) == CHOOSE x \in S : \A y \in S : x <= y
Max(S) == CHOOSE x \in S : \A y \in S : x >= y

\* The positions of s that hold no whitespace.
Inked(s) == {i \in 1..Len(s) : s[i] \notin Whitespace}

\* s without its leading and trailing whitespace.
Trimmed(s) == IF Inked(s) = {} THEN <<>> ELSE SubSeq(s, Min(Inked(s)), Max(Inked(s)))

\* The whitespace-separated tokens of s: where each starts, where the one
\* starting at i ends, and the k-th of them.
TokenStarts(s) == {i \in Inked(s) : i = 1 \/ s[i - 1] \in Whitespace}
TokenEnd(s, i) == Min({j \in i..Len(s) : j = Len(s) \/ s[j + 1] \in Whitespace})
Token(s, k) ==
    LET i == CHOOSE x \in TokenStarts(s) :
                 Cardinality({y \in TokenStarts(s) : y < x}) = k - 1
    IN  SubSeq(s, i, TokenEnd(s, i))
TokenCount(s) == Cardinality(TokenStarts(s))

\* s lowercased, then without one leading "*.".
Normalised(s) ==
    LET t == lower(Trimmed(s)) IN
    IF Len(t) >= 2 /\ t[1] = STAR /\ t[2] = DOT THEN SubSeq(t, 3, Len(t)) ELSE t

\* s is empty or starts with '#'.
IsCommentOrBlank(s) == s = <<>> \/ s[1] = HASH

\* The whitelist matches domain d: d is an exact entry or a wildcard base, or
\* a wildcard base follows one of d's dots to the end of d.
Whitelisted(d) ==
    \/ d \in exact_domains
    \/ d \in wildcard_domains
    \/ \E k \in 2..Len(d) : d[k - 1] = DOT /\ SubSeq(d, k, Len(d)) \in wildcard_domains

C5_Taken(t) ==
    IF Len(t) >= 2 /\ t[1] = PIPE /\ t[2] = PIPE
    THEN LET carets == {p \in 3..Len(t) : t[p] = CARET} IN
         IF carets # {} THEN SubSeq(t, 3, Min(carets) - 1)
         ELSE SubSeq(t, 3, Len(t))
    ELSE IF TokenCount(t) >= 2 THEN Token(t, 2)
         ELSE IF TokenCount(t) = 1 THEN Token(t, 1)
         ELSE <<>>

\* C5: _extract_domain(line) is, of the trimmed line, the text between "||"
\* and the first "^" (or the end) when it starts with "||", else the second
\* token, the only token, or nothing; trimmed, lowercased, and with one
\* leading "*." removed.
C5_ExtractsTheDomain ==
    ret.op = "_extract_domain" => ret.str = Normalised(C5_Taken(Trimmed(arg)))

\* C5's case reached: "||A^a" gives "a".
C5_BracketLineExtracted ==
    /\ ret.op = "_extract_domain"
    /\ arg = <<PIPE, PIPE, "A", CARET, "a">>
    /\ ret.str = <<"a">>

\* ------------------------------------------------------------------------
\* C6
\* ------------------------------------------------------------------------
\* A line C6 calls malformed: data, not "||domain^...", and of three or more
\* tokens.
C6_Malformed(line) ==
    LET t == Trimmed(line) IN
    /\ ~IsCommentOrBlank(t)
    /\ ~(Len(t) >= 2 /\ t[1] = PIPE /\ t[2] = PIPE)
    /\ TokenCount(t) >= 3

\* C6 as stated: a malformed line is never an error and is always kept, for
\* every whitelist store.
C6_MalformedAlwaysKept ==
    (ret.op = "filter_blocklist_line" /\ C6_Malformed(arg))
        => (ret.kind = "return" /\ ~ret.none)

\* C6 amended: no line is an error; a malformed line is dropped exactly when
\* its second token, normalised, is non-empty and whitelisted, and is
\* otherwise returned trimmed; a data line whose extracted domain is empty
\* is kept for every store.
C6_MalformedKeptUnlessSecondTokenWhitelisted ==
    ret.op = "filter_blocklist_line" =>
        /\ ret.kind = "return"
        /\ C6_Malformed(arg) =>
              LET d == Normalised(Token(Trimmed(arg), 2)) IN
              /\ ret.none <=> (d # <<>> /\ Whitelisted(d))
              /\ ~ret.none => ret.str = Trimmed(arg)
        /\ (~IsCommentOrBlank(Trimmed(arg))
                /\ Normalised(C5_Taken(Trimmed(arg))) = <<>>)
              => (~ret.none /\ ret.str = Trimmed(arg))

\* C6's case reached: a three-token line is dropped.
C6_MalformedLineDropped ==
    /\ ret.op = "filter_blocklist_line"
    /\ C6_Malformed(arg)
    /\ ret.none

\* ------------------------------------------------------------------------
\* C8
\* ------------------------------------------------------------------------
\* C8: every string in exact_domains and wildcard_domains is lowercase, has
\* no leading or trailing whitespace, and is non-empty.
C8_StoreEntriesNormalised ==
    \A d \in exact_domains \cup wildcard_domains :
        /\ d # <<>>
        /\ lower(d) = d
        /\ d[1] \notin Whitespace
        /\ d[Len(d)] \notin Whitespace

\* ------------------------------------------------------------------------
\* C9
\* ------------------------------------------------------------------------
\* C9: after any sequence of load_whitelist calls the sets are exactly the
\* classified entries of the file of the most recent load that returned
\* True, and empty if none has: a load that returns False leaves nothing of
\* its file in the store.
C9_StoreIsLastSuccessfulLoad ==
    LET lines == readlines(hist.good_file)
        st == IF hist.good THEN load_whitelist_lines(lines, Len(lines))
              ELSE EmptySets
    IN  /\ exact_domains = st.exact
        /\ wildcard_domains = st.wildcard

\* ------------------------------------------------------------------------
\* The last filter_blocklist_file call, seen from the state it returned in
\* ------------------------------------------------------------------------
\* The call has returned, and from line 205.
Succeeded ==
    /\ pc = "idle"
    /\ ret.op = "filter_blocklist_file"
    /\ ret.kind = "return"
    /\ hist.exc = ""

\* The lines of the input as it was when the call was made.
InLines == readlines(hist.call_fs[hist.call_in].content)

\* The output file now.
OutContent == fs[hist.call_out].content

\* The input lines for which filter_blocklist_line signals drop.
DroppedLines == {i \in 1..Len(InLines) : filter_blocklist_line(InLines[i]).none}

\* What filter_blocklist_line returns for the lines it keeps, in order.
RECURSIVE KeptOf(_)
KeptOf(lines) ==
    IF lines = <<>> THEN <<>>
    ELSE LET r == filter_blocklist_line(Head(lines)) IN
         (IF r.none THEN <<>> ELSE <<r.str>>) \o KeptOf(Tail(lines))

\* The lines, each followed by one newline, one after the other.
RECURSIVE Terminated(_)
Terminated(lines) ==
    IF lines = <<>> THEN <<>> ELSE Head(lines) \o <<NL>> \o Terminated(Tail(lines))

Newlines(content) == {i \in 1..Len(content) : content[i] = NL}

\* ------------------------------------------------------------------------
\* C2
\* ------------------------------------------------------------------------
\* C2: filter_blocklist_file run again on the file it just produced, with
\* the store unchanged, drops no line and leaves the content as it was.
C2_SecondRunChangesNothing ==
    (Succeeded /\ hist.rerun)
        => /\ ret.pair[2] = 0
           /\ OutContent = hist.call_fs[hist.call_in].content

\* C2's case reached: the second run has returned, the first one had dropped
\* a line and kept another.
C2_SecondRunAfterDrops ==
    /\ Succeeded
    /\ hist.rerun
    /\ hist.prev_pair[2] > 0
    /\ hist.prev_pair[1] > hist.prev_pair[2]

\* ------------------------------------------------------------------------
\* C3
\* ------------------------------------------------------------------------
\* C3: a successful filter_blocklist_file returns (lines read, lines
\* dropped); the output holds the kept lines in input order, each ended by
\* one newline, so lines read minus lines dropped of them; and
\* 0 <= dropped <= read.
C3_CountsAndOutput ==
    Succeeded =>
        /\ ret.pair = <<Len(InLines), Cardinality(DroppedLines)>>
        /\ OutContent = Terminated(KeptOf(InLines))
        /\ Cardinality(Newlines(OutContent)) = ret.pair[1] - ret.pair[2]
        /\ OutContent # <<>> => OutContent[Len(OutContent)] = NL
        /\ 0 <= ret.pair[2]
        /\ ret.pair[2] <= ret.pair[1]

\* C3's case reached: a run that dropped a line and kept one it had to trim.
C3_RunDropsAndKeeps ==
    /\ Succeeded
    /\ ret.pair[2] > 0
    /\ ret.pair[1] > ret.pair[2]
    /\ OutContent # <<>>
    /\ \E i \in 1..Len(InLines) : i \notin DroppedLines /\ Trimmed(InLines[i]) # <<>>

\* ------------------------------------------------------------------------
\* C4
\* ------------------------------------------------------------------------
\* A line as a caller passes it: without its terminator.
Chomped(line) ==
    IF line # <<>> /\ line[Len(line)] = NL THEN SubSeq(line, 1, Len(line) - 1)
    ELSE line

\* The input lines that are empty or start with '#'.
CommentOrBlankLines == {i \in 1..Len(InLines) : IsCommentOrBlank(Chomped(InLines[i]))}

\* The output line that input line i, if kept, has become.
OutLineOf(i) ==
    LET outs == readlines(OutContent)
        k == Cardinality({j \in 1..i : j \notin DroppedLines})
    IN  IF k \in 1..Len(outs) THEN Chomped(outs[k]) ELSE <<"?">>

C7_FailuresAreReturned ==
    /\ ret.kind # "raise"
    /\ (ret.op = "load_whitelist" /\ hist.exc # "")
          => (ret.kind = "return" /\ ~ret.bool)
    /\ (ret.op = "filter_blocklist_file" /\ hist.exc # "")
          => (ret.kind = "return" /\ ret.pair = <<0, 0>>)

\* C7's case reached: a write fails after lines were read and counted.
C7_WriteFailsAfterCounting ==
    /\ ret.op = "filter_blocklist_file"
    /\ hist.exc = "OSError"
    /\ hist.failed_at = "writing"
    /\ hist.seen # <<>>
    /\ ret.pair = <<0, 0>>

\* ------------------------------------------------------------------------
\* C10
\* ------------------------------------------------------------------------
\* C10: the output is opened for writing only after the input has been read
\* to its end and its handle closed, in place or not; when opening or
\* reading the input fails the output path is untouched; and the lines read
\* are those the input held when the call was made.
C10_OutputOpenedAfterInputClosed ==
    /\ out_handle = "open" => in_handle = "closed"
    /\ hist.failed_at \in {"open_in", "reading"} => hist.out_opens = 0
    /\ hist.call_in # "" =>
          /\ hist.out_opens > 0 => hist.seen = InLines
          /\ hist.out_opens = 0 => fs[hist.call_out] = hist.call_fs[hist.call_out]
          /\ Len(hist.seen) <= Len(InLines)
          /\ hist.seen = SubSeq(InLines, 1, Len(hist.seen))

\* C10's case reached: an in-place run is writing what it read.
C10_WritingInPlace ==
    /\ out_handle = "open"
    /\ hist.call_in = hist.call_out
    /\ hist.seen # <<>>
    /\ written > 0

====
